---------------------------- MODULE Spec2Model ----------------------------
(***************************************************************************)
(* The transcription job queue of ReelArc (server/transcription.go): the   *)
(* TranscriptionQueue type (Queue, InProcess, Completed, Failed guarded by *)
(* one sync.Mutex) and the goroutines that use it: the single              *)
(* transcriptionWorker, the startup scanner checkExistingMediaFiles, the   *)
(* upload handlers and the status handlers.                                *)
(*                                                                         *)
(* Every method of the queue is modelled as its Lock step, the statements  *)
(* of its body one step each, and its deferred Unlock step, so that the    *)
(* mutual exclusion is something the model checks, not something it        *)
(* assumes.                                                                *)
(*                                                                         *)
(* The worker's pipeline (processTranscription, extractAudioFromVideo,      *)
(* runWhisperX, updateMetadataWithTranscript) acts on the data directory:  *)
(* the media files, the transcripts directory with its <f>.json and        *)
(* <f>.failed markers and the scratch <f>.wav, the metadata directory with *)
(* the Markdown records handleUpload writes and the JSON records           *)
(* updateMetadataWithTranscript reads.  The external tools and the file    *)
(* system may fail wherever the code handles an error, at most MaxFailures *)
(* times in a run.                                                         *)
(*                                                                         *)
(* Six specifications:                                                     *)
(*   Spec       one lifetime of the running server with the tools and the  *)
(*              file system working: worker, scanner, upload and status    *)
(*              handlers.                                                  *)
(*   SpecFair   Spec with the goroutines scheduled fairly, for what the    *)
(*              worker eventually does.                                    *)
(*   SpecFaults one lifetime in which the tools and the file system may    *)
(*              fail: the worker on the files the scanner finds.           *)
(*   SpecStore  the TranscriptionQueue type alone, driven through its      *)
(*              exported methods by arbitrary concurrent clients.          *)
(*   SpecJob    the worker alone, started with jobs queued for any names   *)
(*              on a media directory that may lack the files.              *)
(*   SpecLife   several lifetimes with faults and one upload handler: the  *)
(*              process may be killed at any point, or stopped while idle, *)
(*              and started again on the same data directory, and an       *)
(*              operator may remove a .failed marker while it is down.     *)
(*                                                                         *)
(* The Timestamp field of a status row (time.Now() at read) is left out of *)
(* the rows: no modelled behaviour depends on it.                          *)
(***************************************************************************)
EXTENDS Integers, Sequences, FiniteSets, TLC

(* ------------------------------ bounds -------------------------------- *)
NumFiles == 2
NumUploaders == 2
NumObservers == 1
NumClients == 2
MaxCalls == 4
MaxFailures == 1
MaxRestarts == 1

(* ----------------------------- universe ------------------------------- *)
FileNames == <<"A.MP3", "clip.mp4", "c.wav", "d.MoV">>
Files == {FileNames[i] : i \in 1..NumFiles}
\* a photo: a regular file that is no audio and no video
Photo == "p.jpg"
\* a subdirectory of the media directory, named like a media file
SubDir == "dir.mp4"
\* os.ReadDir returns the entries sorted by filename
DirListing == <<"A.MP3", "c.wav", "clip.mp4", "d.MoV", "dir.mp4", "p.jpg">>

UploaderNames == <<"upload1", "upload2", "upload3", "upload4">>
ObserverNames == <<"status1", "status2", "status3">>
ClientNames == <<"client1", "client2", "client3", "client4">>

Worker == "worker"
Scanner == "scanner"
Uploaders == {UploaderNames[i] : i \in 1..NumUploaders}
Observers == {ObserverNames[i] : i \in 1..NumObservers}
Clients == {ClientNames[i] : i \in 1..NumClients}
Threads == {Worker, Scanner} \cup Uploaders \cup Observers \cup Clients

\* the nil error
NoErr == "<nil>"
\* the texts of the errors processTranscription returns (their fixed prefixes)
PipelineErrors ==
    { "file does not exist", "unsupported file type", "failed to extract audio",
      "whisperx transcription failed", "failed to update metadata" }
\* error texts a client of the bare type may pass to MarkFailed
ClientErrors == {"", "boom"}

(* ------------------------- names and suffixes ------------------------- *)
\* the characters of a filename (a string cannot be taken apart otherwise)
Chars(n) ==
    CASE n = "A.MP3" -> <<"A", ".", "M", "P", "3">>
      [] n = "clip.mp4" -> <<"c", "l", "i", "p", ".", "m", "p", "4">>
      [] n = "c.wav" -> <<"c", ".", "w", "a", "v">>
      [] n = "d.MoV" -> <<"d", ".", "M", "o", "V">>
      [] n = "dir.mp4" -> <<"d", "i", "r", ".", "m", "p", "4">>
      [] n = "p.jpg" -> <<"p", ".", "j", "p", "g">>

UpperCase == [c \in {"A", "M", "P", "V"} |->
                 CASE c = "A" -> "a" [] c = "M" -> "m" [] c = "P" -> "p" [] c = "V" -> "v"]

\* strings.ToLower
ToLower(cs) == [i \in 1..Len(cs) |-> IF cs[i] \in DOMAIN UpperCase THEN UpperCase[cs[i]] ELSE cs[i]]

\* strings.HasSuffix
HasSuffix(cs, suffix) ==
    /\ Len(cs) >= Len(suffix)
    /\ SubSeq(cs, Len(cs) - Len(suffix) + 1, Len(cs)) = suffix

DotMp3 == <<".", "m", "p", "3">>
DotWav == <<".", "w", "a", "v">>
DotMp4 == <<".", "m", "p", "4">>
DotMov == <<".", "m", "o", "v">>
DotJpg == <<".", "j", "p", "g">>
DotJpeg == <<".", "j", "p", "e", "g">>

\* mutant of isAudio: only .mp3 is audio for the pipeline
isAudioMp3Only(f) == HasSuffix(ToLower(Chars(f)), DotMp3)

\* transcription.go:247-249
isVideo(f) == HasSuffix(ToLower(Chars(f)), DotMp4) \/ HasSuffix(ToLower(Chars(f)), DotMov)
isAudio(f) == HasSuffix(ToLower(Chars(f)), DotMp3) \/ HasSuffix(ToLower(Chars(f)), DotWav)

\* transcription.go:218-221: the suffix test of the scanner
ScannerSuffix(f) ==
    \/ HasSuffix(ToLower(Chars(f)), DotMp3)
    \/ HasSuffix(ToLower(Chars(f)), DotWav)
    \/ HasSuffix(ToLower(Chars(f)), DotMp4)
    \/ HasSuffix(ToLower(Chars(f)), DotMov)

\* transcription.go:761-768: mediaType of handleUpload
mediaType(f) ==
    IF HasSuffix(ToLower(Chars(f)), DotMp3) \/ HasSuffix(ToLower(Chars(f)), DotWav)
      THEN "audio"
    ELSE IF HasSuffix(ToLower(Chars(f)), DotMp4) \/ HasSuffix(ToLower(Chars(f)), DotMov)
      THEN "video"
    ELSE IF HasSuffix(ToLower(Chars(f)), DotJpg) \/ HasSuffix(ToLower(Chars(f)), DotJpeg)
      THEN "photo"
    ELSE "unknown"

(* ----------------------------- error texts ---------------------------- *)
\* fmt.Errorf("<prefix>: %v", err)
Wrap(prefix, cause) == prefix \o ": " \o cause

\* the text of an error of the operating system, and of a tool that exits non-zero
IOError == "input/output error"
ExitError == "exit status 1"
NotExistError == "no such file or directory"

(* ------------------------ whisperx and its output --------------------- *)
\* a JSON value with its type, as the type assertions of runWhisperX see it
Num(x) == <<"number", x>>
Str(x) == <<"string", x>>
Obj(start, end, text) == <<"object", [start |-> start, end |-> end, text |-> text]>>
Seg(start, end, text) == Obj(Num(start), Num(end), Str(text))

\* the "segments" array whisperx writes for the speech in a media file; the one
\* for A.MP3 has an element that is not an object and two objects with a field
\* of the wrong type
Speech(f) ==
    CASE f = "A.MP3" -> <<Seg(0, 1, "x"), Str("noise"), Obj(Str("1"), Num(2), Str("y")),
                          Obj(Num(2), Num(3), Num(7)), Seg(3, 4, "z")>>
      [] f = "clip.mp4" -> <<Seg(0, 1, "hello"), Seg(1, 2, "world")>>
      [] f = "c.wav" -> <<Seg(0, 2, "one")>>
      [] OTHER -> <<Seg(0, 1, "a"), Seg(1, 2, "b"), Seg(2, 3, "c")>>

\* v.(float64) and v.(string) with the result of a failed assertion discarded
AsFloat(v) == IF v[1] = "number" THEN v[2] ELSE 0
AsString(v) == IF v[1] = "string" THEN v[2] ELSE ""

\* mutant of TranscriptEntries: the entries are numbered as they are kept
TranscriptEntriesRenumbered(segments) ==
    LET objects == SelectSeq([i \in 1..Len(segments) |-> i],
                             LAMBDA i : segments[i][1] = "object")
    IN  [k \in 1..Len(objects) |->
            [Start |-> AsFloat(segments[objects[k]][2].start),
             End |-> AsFloat(segments[objects[k]][2].end),
             Text |-> AsString(segments[objects[k]][2].text),
             Segment |-> k - 1]]

\* transcription.go:369-387: one TranscriptEntry per element that is an object,
\* Segment being the index of the element in the array
TranscriptEntries(segments) ==
    LET objects == SelectSeq([i \in 1..Len(segments) |-> i],
                             LAMBDA i : segments[i][1] = "object")
    IN  [k \in 1..Len(objects) |->
            [Start |-> AsFloat(segments[objects[k]][2].start),
             End |-> AsFloat(segments[objects[k]][2].end),
             Text |-> AsString(segments[objects[k]][2].text),
             Segment |-> objects[k] - 1]]

(* --------------------------- metadata records ------------------------- *)
RECURSIVE fullText(_)
\* transcription.go:430-435: WriteString(entry.Text); WriteString(" ") per entry
fullText(transcripts) ==
    IF transcripts = <<>>
      THEN ""
      ELSE fullText(SubSeq(transcripts, 1, Len(transcripts) - 1))
               \o transcripts[Len(transcripts)].Text \o " "

\* the record handleUpload writes as <f>.md: the frontmatter (lines 842-858)
\* and the body, which is the transcription; the ID is the time of this upload
\* and the timestamp the one this upload found
MarkdownRecord(f) ==
    [ID |-> "id of the upload of " \o f, Filename |-> f, Path |-> "/media/" \o f,
     Type |-> mediaType(f), Timestamp |-> "time of the upload of " \o f,
     Labels |-> <<>>, Transcription |-> ""]

\* the MediaMetadata value the JSON version of handleUpload built for f (lines
\* 1320-1328): the ID is the time of the upload, the timestamp that of the file
UploadedMetadata(f) ==
    [ID |-> "id of " \o f, Filename |-> f, Path |-> "/media/" \o f, Type |-> mediaType(f),
     Timestamp |-> "time of " \o f, Duration |-> 0, Transcription |-> "",
     Labels |-> <<>>, Transcripts |-> <<>>]

\* json.MarshalIndent of a MediaMetadata (tags, lines 481-489): a JSON object as
\* a function of its keys; duration and transcripts are omitted when empty
MarshalMetadata(m) ==
    [k \in {"id", "filename", "path", "type", "timestamp", "transcription", "labels"}
            \cup (IF m.Duration = 0 THEN {} ELSE {"duration"})
            \cup (IF m.Transcripts = <<>> THEN {} ELSE {"transcripts"}) |->
        CASE k = "id" -> m.ID
          [] k = "filename" -> m.Filename
          [] k = "path" -> m.Path
          [] k = "type" -> m.Type
          [] k = "timestamp" -> m.Timestamp
          [] k = "duration" -> m.Duration
          [] k = "transcription" -> m.Transcription
          [] k = "labels" -> m.Labels
          [] k = "transcripts" -> m.Transcripts]

\* mutant of UnmarshalMetadata: the timestamp is not read
UnmarshalMetadataNoTimestamp(j) ==
    [ID |-> IF "id" \in DOMAIN j THEN j["id"] ELSE "",
     Filename |-> IF "filename" \in DOMAIN j THEN j["filename"] ELSE "",
     Path |-> IF "path" \in DOMAIN j THEN j["path"] ELSE "",
     Type |-> IF "type" \in DOMAIN j THEN j["type"] ELSE "",
     Timestamp |-> "",
     Duration |-> IF "duration" \in DOMAIN j THEN j["duration"] ELSE 0,
     Transcription |-> IF "transcription" \in DOMAIN j THEN j["transcription"] ELSE "",
     Labels |-> IF "labels" \in DOMAIN j THEN j["labels"] ELSE <<>>,
     Transcripts |-> IF "transcripts" \in DOMAIN j THEN j["transcripts"] ELSE <<>>]

\* json.Unmarshal into a MediaMetadata: a key that is absent leaves the zero
\* value of its field
UnmarshalMetadata(j) ==
    [ID |-> IF "id" \in DOMAIN j THEN j["id"] ELSE "",
     Filename |-> IF "filename" \in DOMAIN j THEN j["filename"] ELSE "",
     Path |-> IF "path" \in DOMAIN j THEN j["path"] ELSE "",
     Type |-> IF "type" \in DOMAIN j THEN j["type"] ELSE "",
     Timestamp |-> IF "timestamp" \in DOMAIN j THEN j["timestamp"] ELSE "",
     Duration |-> IF "duration" \in DOMAIN j THEN j["duration"] ELSE 0,
     Transcription |-> IF "transcription" \in DOMAIN j THEN j["transcription"] ELSE "",
     Labels |-> IF "labels" \in DOMAIN j THEN j["labels"] ELSE <<>>,
     Transcripts |-> IF "transcripts" \in DOMAIN j THEN j["transcripts"] ELSE <<>>]

\* the record the JSON version of handleUpload wrote as <f>.json (lines
\* 1331-1341)
JsonRecord(f) == MarshalMetadata(UploadedMetadata(f))

\* a file of a directory written, and removed
Put(dir, name, content) ==
    [x \in DOMAIN dir \cup {name} |-> IF x = name THEN content ELSE dir[x]]
Drop(dir, name) == [x \in DOMAIN dir \ {name} |-> dir[x]]

VARIABLES
    Queue,      \* tq.Queue: sequence of filenames
    InProcess,  \* tq.InProcess: set of filenames mapped to true
    Completed,  \* tq.Completed: set of filenames mapped to true
    Failed,     \* tq.Failed: function filename -> error message
    mu,         \* tq.mu: "" when unlocked, else the goroutine holding it
    pc,         \* position of every goroutine
    filename,   \* per goroutine: the filename argument / local variable
    errorMsg,   \* per goroutine: errorMsg argument of MarkFailed / err of the worker
    ok,         \* per goroutine: second result of its last GetNext
    statuses,   \* per goroutine: the slice GetAllStatuses is building
    mediaFiles, \* media directory: the names of its regular files
    transcriptJson, \* transcripts directory: <f>.json, filename -> transcript entries
    failedMarker,   \* transcripts directory: <f>.failed, filename -> error text
    scratchWav,     \* transcripts directory: the filenames with a scratch <f>.wav
    scratchDirs,    \* number of whisperx temp directories that exist
    metadataMd,     \* metadata directory: <f>.md, filename -> record
    metadataJson,   \* metadata directory: <f>.json, filename -> record
    failures,   \* number of failures of tools and of the file system so far
    restarts,   \* number of times the process has been started again
    past,       \* history: filename -> its state when the process last ended
    removed,    \* history: the filenames whose .failed marker an operator removed
    scanIdx,    \* position of the scanner in the directory listing
    entry,      \* history, per goroutine: the store as the call in progress found it
    accepted,   \* history: filenames in the order AddToQueue appended them
    handed,     \* history: filenames in the order GetNext removed them
    calls       \* number of method calls the clients of SpecStore have made

store == <<Queue, InProcess, Completed, Failed>>
locals == <<filename, errorMsg, ok, statuses>>
disk == <<mediaFiles, transcriptJson, failedMarker, scratchWav, scratchDirs,
          metadataMd, metadataJson>>
life == <<failures, restarts, past, removed>>
vars == <<Queue, InProcess, Completed, Failed, mu, pc, filename, errorMsg, ok,
          statuses, mediaFiles, transcriptJson, failedMarker, scratchWav, scratchDirs,
          metadataMd, metadataJson, failures, restarts, past, removed,
          scanIdx, entry, accepted, handed, calls>>

(* ------------------------------ helpers ------------------------------- *)
Range(s) == {s[i] : i \in 1..Len(s)}

\* Go's map read: the zero value "" for an absent key
FailedGet(f) == IF f \in DOMAIN Failed THEN Failed[f] ELSE ""

FailedSet(f, e) == [x \in DOMAIN Failed \cup {f} |-> IF x = f THEN e ELSE Failed[x]]

\* every order in which a range over a Go map may visit the keys in S
Orders(S) == {s \in [1..Cardinality(S) -> S] : \A i, j \in 1..Cardinality(S) : s[i] = s[j] => i = j}

\* the four collections of the queue as one value
StoreRec == [Queue |-> Queue, InProcess |-> InProcess, Completed |-> Completed, Failed |-> Failed]
EmptyStore == [Queue |-> <<>>, InProcess |-> {}, Completed |-> {}, Failed |-> <<>>]

Row(f, st, e) == [Filename |-> f, Status |-> st, Error |-> e]

\* the memory of a process that has just been started (main, line 526;
\* InitTranscriptionSystem, lines 47-58; the TQueue literal, lines 39-43)
Started ==
    /\ Queue = <<>>
    /\ InProcess = {}
    /\ Completed = {}
    /\ Failed = <<>>
    /\ mu = ""
    /\ pc = [t \in Threads |-> CASE t = Worker -> "GetNext:Lock"
                                 [] t = Scanner -> "scan"
                                 [] OTHER -> "idle"]
    /\ filename = [t \in Threads |-> ""]
    /\ errorMsg = [t \in Threads |-> ""]
    /\ ok = [t \in Threads |-> FALSE]
    /\ statuses = [t \in Threads |-> <<>>]
    /\ scanIdx = 1
    /\ entry = [t \in Threads |-> EmptyStore]
    /\ accepted = <<>>
    /\ handed = <<>>

\* The first start, on the data directory an installation of the JSON version
\* of handleUpload (lines 1208-1350) left: a photo and any audio and video
\* files, each with its JSON metadata record.
Init ==
    /\ Started
    /\ mediaFiles \in {S \cup {Photo} : S \in SUBSET Files}
    /\ metadataJson = [f \in mediaFiles |-> JsonRecord(f)]
    /\ metadataMd = <<>>
    /\ transcriptJson = <<>>
    /\ failedMarker = <<>>
    /\ scratchWav = {}
    /\ scratchDirs = 0
    /\ failures = 0
    /\ restarts = 0
    /\ past = [f \in Files |-> "none"]
    /\ removed = {}
    /\ calls = 0


(* ------------------------------- mutex -------------------------------- *)
\* mutant of Lock: a mutex that excludes nobody
LockNoExclusion(t) ==
    /\ mu' = t

\* tq.mu.Lock(): blocks until the mutex is free, then takes it
Lock(t) ==
    /\ mu = ""
    /\ mu' = t

\* defer tq.mu.Unlock()
Unlock(t) ==
    /\ mu' = ""

\* where goroutine t continues when the method it is in returns
ReturnPc(t) ==
    CASE t = Worker /\ pc[t] = "GetNext:Unlock" ->
             IF ok[t] THEN "processTranscription" ELSE "Sleep"
      [] t = Worker /\ pc[t] = "MarkFailed:Unlock" -> "WriteFailedFile"
      [] t = Worker /\ pc[t] = "MarkCompleted:Unlock" -> "GetNext:Lock"
      [] t = Scanner -> "scan"
      [] OTHER -> "idle"

Goto(t, label) == pc' = [pc EXCEPT ![t] = label]

(* ----------------------------- AddToQueue ----------------------------- *)
\* transcription.go:76-83
isInQueue(f) == \E i \in 1..Len(Queue) : Queue[i] = f

\* mutant of AlreadyKnown: the check forgets the completed files
AlreadyKnownNoCompleted(f) ==
    isInQueue(f) \/ f \in InProcess \/ FailedGet(f) # ""

\* the condition of the early return at transcription.go:66
AlreadyKnown(f) ==
    isInQueue(f) \/ f \in InProcess \/ f \in Completed \/ FailedGet(f) # ""

AddToQueueLock(t) ==
    /\ pc[t] = "AddToQueue:Lock"
    /\ Lock(t)
    /\ entry' = [entry EXCEPT ![t] = StoreRec]
    /\ Goto(t, "AddToQueue:check")
    /\ UNCHANGED <<store, locals, disk, life, scanIdx, accepted, handed, calls>>

AddToQueueCheck(t) ==
    /\ pc[t] = "AddToQueue:check"
    /\ IF AlreadyKnown(filename[t])
         THEN Goto(t, "AddToQueue:Unlock")
         ELSE Goto(t, "AddToQueue:append")
    /\ UNCHANGED <<store, mu, locals, disk, life, scanIdx, entry, accepted, handed, calls>>

AddToQueueAppend(t) ==
    /\ pc[t] = "AddToQueue:append"
    /\ Queue' = Append(Queue, filename[t])
    /\ accepted' = Append(accepted, filename[t])
    /\ Goto(t, "AddToQueue:Unlock")
    /\ UNCHANGED <<InProcess, Completed, Failed, mu, locals, disk, life, scanIdx, entry, handed, calls>>

AddToQueueUnlock(t) ==
    /\ pc[t] = "AddToQueue:Unlock"
    /\ Unlock(t)
    /\ entry' = [entry EXCEPT ![t] = EmptyStore]
    /\ Goto(t, ReturnPc(t))
    /\ filename' = [filename EXCEPT ![t] = ""]
    /\ UNCHANGED <<store, errorMsg, ok, statuses, disk, life, scanIdx, accepted, handed, calls>>

\* the method once its Lock has succeeded
AddToQueueBody(t) ==
    \/ AddToQueueCheck(t)
    \/ AddToQueueAppend(t)
    \/ AddToQueueUnlock(t)

AddToQueue(t) == AddToQueueLock(t) \/ AddToQueueBody(t)

(* ------------------------------ GetNext ------------------------------- *)
GetNextLock(t) ==
    /\ pc[t] = "GetNext:Lock"
    /\ Lock(t)
    /\ entry' = [entry EXCEPT ![t] = StoreRec]
    /\ Goto(t, "GetNext:front")
    /\ UNCHANGED <<store, locals, disk, life, scanIdx, accepted, handed, calls>>

\* mutant of GetNextFront: takes the newest entry, not the oldest
GetNextFrontLast(t) ==
    /\ pc[t] = "GetNext:front"
    /\ IF Len(Queue) = 0
         THEN /\ filename' = [filename EXCEPT ![t] = ""]
              /\ ok' = [ok EXCEPT ![t] = FALSE]
              /\ Goto(t, "GetNext:Unlock")
              /\ UNCHANGED <<Queue, handed>>
         ELSE /\ filename' = [filename EXCEPT ![t] = Queue[Len(Queue)]]
              /\ Queue' = SubSeq(Queue, 1, Len(Queue) - 1)
              /\ handed' = Append(handed, Queue[Len(Queue)])
              /\ Goto(t, "GetNext:mark")
              /\ UNCHANGED ok
    /\ UNCHANGED <<InProcess, Completed, Failed, mu, errorMsg, statuses, disk, life, scanIdx, entry, accepted, calls>>

\* mutant of GetNextFront: an empty queue is reported as a job
GetNextFrontOkOnEmpty(t) ==
    /\ pc[t] = "GetNext:front"
    /\ IF Len(Queue) = 0
         THEN /\ filename' = [filename EXCEPT ![t] = ""]
              /\ Goto(t, "GetNext:mark")
              /\ UNCHANGED <<Queue, handed, ok>>
         ELSE /\ filename' = [filename EXCEPT ![t] = Queue[1]]
              /\ Queue' = Tail(Queue)
              /\ handed' = Append(handed, Queue[1])
              /\ Goto(t, "GetNext:mark")
              /\ UNCHANGED ok
    /\ UNCHANGED <<InProcess, Completed, Failed, mu, errorMsg, statuses, disk, life, scanIdx, entry, accepted, calls>>

\* transcription.go:90-98: the empty check, filename := Queue[0], Queue = Queue[1:]
GetNextFront(t) ==
    /\ pc[t] = "GetNext:front"
    /\ IF Len(Queue) = 0
         THEN /\ filename' = [filename EXCEPT ![t] = ""]
              /\ ok' = [ok EXCEPT ![t] = FALSE]
              /\ Goto(t, "GetNext:Unlock")
              /\ UNCHANGED <<Queue, handed>>
         ELSE /\ filename' = [filename EXCEPT ![t] = Queue[1]]
              /\ Queue' = Tail(Queue)
              /\ handed' = Append(handed, Queue[1])
              /\ Goto(t, "GetNext:mark")
              /\ UNCHANGED ok
    /\ UNCHANGED <<InProcess, Completed, Failed, mu, errorMsg, statuses, disk, life, scanIdx, entry, accepted, calls>>

\* transcription.go:101-103: InProcess[filename] = true; return filename, true
GetNextMark(t) ==
    /\ pc[t] = "GetNext:mark"
    /\ InProcess' = InProcess \cup {filename[t]}
    /\ ok' = [ok EXCEPT ![t] = TRUE]
    /\ Goto(t, "GetNext:Unlock")
    /\ UNCHANGED <<Queue, Completed, Failed, mu, filename, errorMsg, statuses, disk, life, scanIdx, entry, accepted, handed, calls>>

\* mutant of GetNextUnlock: GetNext returns with the mutex still held
GetNextUnlockKeep(t) ==
    /\ pc[t] = "GetNext:Unlock"
    /\ entry' = [entry EXCEPT ![t] = EmptyStore]
    /\ Goto(t, ReturnPc(t))
    /\ IF t = Worker
         THEN UNCHANGED <<filename, ok>>
         ELSE /\ filename' = [filename EXCEPT ![t] = ""]
              /\ ok' = [ok EXCEPT ![t] = FALSE]
    /\ UNCHANGED <<store, mu, errorMsg, statuses, disk, life, scanIdx, accepted, handed, calls>>

GetNextUnlock(t) ==
    /\ pc[t] = "GetNext:Unlock"
    /\ Unlock(t)
    /\ entry' = [entry EXCEPT ![t] = EmptyStore]
    /\ Goto(t, ReturnPc(t))
    /\ IF t = Worker
         THEN UNCHANGED <<filename, ok>>
         ELSE /\ filename' = [filename EXCEPT ![t] = ""]
              /\ ok' = [ok EXCEPT ![t] = FALSE]
    /\ UNCHANGED <<store, errorMsg, statuses, disk, life, scanIdx, accepted, handed, calls>>

GetNextBody(t) ==
    \/ GetNextFront(t)
    \/ GetNextMark(t)
    \/ GetNextUnlock(t)

GetNext(t) == GetNextLock(t) \/ GetNextBody(t)

(* ----------------------- MarkCompleted / MarkFailed ------------------- *)
MarkCompletedLock(t) ==
    /\ pc[t] = "MarkCompleted:Lock"
    /\ Lock(t)
    /\ entry' = [entry EXCEPT ![t] = StoreRec]
    /\ Goto(t, "MarkCompleted:delete")
    /\ UNCHANGED <<store, locals, disk, life, scanIdx, accepted, handed, calls>>

\* transcription.go:111: delete(tq.InProcess, filename)
MarkCompletedDelete(t) ==
    /\ pc[t] = "MarkCompleted:delete"
    /\ InProcess' = InProcess \ {filename[t]}
    /\ Goto(t, "MarkCompleted:set")
    /\ UNCHANGED <<Queue, Completed, Failed, mu, locals, disk, life, scanIdx, entry, accepted, handed, calls>>

\* transcription.go:112: tq.Completed[filename] = true
MarkCompletedSet(t) ==
    /\ pc[t] = "MarkCompleted:set"
    /\ Completed' = Completed \cup {filename[t]}
    /\ Goto(t, "MarkCompleted:Unlock")
    /\ UNCHANGED <<Queue, InProcess, Failed, mu, locals, disk, life, scanIdx, entry, accepted, handed, calls>>

MarkCompletedUnlock(t) ==
    /\ pc[t] = "MarkCompleted:Unlock"
    /\ Unlock(t)
    /\ entry' = [entry EXCEPT ![t] = EmptyStore]
    /\ Goto(t, ReturnPc(t))
    /\ filename' = [filename EXCEPT ![t] = ""]
    /\ errorMsg' = [errorMsg EXCEPT ![t] = ""]
    /\ UNCHANGED <<store, ok, statuses, disk, life, scanIdx, accepted, handed, calls>>

MarkCompletedBody(t) ==
    \/ MarkCompletedDelete(t)
    \/ MarkCompletedSet(t)
    \/ MarkCompletedUnlock(t)

MarkCompleted(t) == MarkCompletedLock(t) \/ MarkCompletedBody(t)

MarkFailedLock(t) ==
    /\ pc[t] = "MarkFailed:Lock"
    /\ Lock(t)
    /\ entry' = [entry EXCEPT ![t] = StoreRec]
    /\ Goto(t, "MarkFailed:delete")
    /\ UNCHANGED <<store, locals, disk, life, scanIdx, accepted, handed, calls>>

\* transcription.go:120: delete(tq.InProcess, filename)
MarkFailedDelete(t) ==
    /\ pc[t] = "MarkFailed:delete"
    /\ InProcess' = InProcess \ {filename[t]}
    /\ Goto(t, "MarkFailed:set")
    /\ UNCHANGED <<Queue, Completed, Failed, mu, locals, disk, life, scanIdx, entry, accepted, handed, calls>>

\* transcription.go:121: tq.Failed[filename] = errorMsg
MarkFailedSet(t) ==
    /\ pc[t] = "MarkFailed:set"
    /\ Failed' = FailedSet(filename[t], errorMsg[t])
    /\ Goto(t, "MarkFailed:Unlock")
    /\ UNCHANGED <<Queue, InProcess, Completed, mu, locals, disk, life, scanIdx, entry, accepted, handed, calls>>

\* the worker keeps filename and err for the .failed file it writes next
MarkFailedUnlock(t) ==
    /\ pc[t] = "MarkFailed:Unlock"
    /\ Unlock(t)
    /\ entry' = [entry EXCEPT ![t] = EmptyStore]
    /\ Goto(t, ReturnPc(t))
    /\ IF t = Worker
         THEN UNCHANGED <<filename, errorMsg>>
         ELSE /\ filename' = [filename EXCEPT ![t] = ""]
              /\ errorMsg' = [errorMsg EXCEPT ![t] = ""]
    /\ UNCHANGED <<store, ok, statuses, disk, life, scanIdx, accepted, handed, calls>>

MarkFailedBody(t) ==
    \/ MarkFailedDelete(t)
    \/ MarkFailedSet(t)
    \/ MarkFailedUnlock(t)

MarkFailed(t) == MarkFailedLock(t) \/ MarkFailedBody(t)

(* --------------------------- GetAllStatuses --------------------------- *)
\* (its Lock step is part of the handler's call, handleTranscriptionStatus)
\* transcription.go:132-138: one "queued" row per queue entry, in queue order
GetAllStatusesQueue(t) ==
    /\ pc[t] = "GetAllStatuses:rangeQueue"
    /\ statuses' = [statuses EXCEPT ![t] =
                      @ \o [i \in 1..Len(Queue) |-> Row(Queue[i], "queued", "")]]
    /\ Goto(t, "GetAllStatuses:rangeInProcess")
    /\ UNCHANGED <<store, mu, filename, errorMsg, ok, disk, life, scanIdx, entry, accepted, handed, calls>>

\* transcription.go:141-147: map iteration, in any order
GetAllStatusesInProcess(t) ==
    /\ pc[t] = "GetAllStatuses:rangeInProcess"
    /\ \E o \in Orders(InProcess) :
          statuses' = [statuses EXCEPT ![t] =
                         @ \o [i \in 1..Len(o) |-> Row(o[i], "processing", "")]]
    /\ Goto(t, "GetAllStatuses:rangeCompleted")
    /\ UNCHANGED <<store, mu, filename, errorMsg, ok, disk, life, scanIdx, entry, accepted, handed, calls>>

\* transcription.go:150-156
GetAllStatusesCompleted(t) ==
    /\ pc[t] = "GetAllStatuses:rangeCompleted"
    /\ \E o \in Orders(Completed) :
          statuses' = [statuses EXCEPT ![t] =
                         @ \o [i \in 1..Len(o) |-> Row(o[i], "completed", "")]]
    /\ Goto(t, "GetAllStatuses:rangeFailed")
    /\ UNCHANGED <<store, mu, filename, errorMsg, ok, disk, life, scanIdx, entry, accepted, handed, calls>>

\* mutant of GetAllStatusesFailed: the failed rows lose their error text
GetAllStatusesFailedNoError(t) ==
    /\ pc[t] = "GetAllStatuses:rangeFailed"
    /\ \E o \in Orders(DOMAIN Failed) :
          statuses' = [statuses EXCEPT ![t] =
                         @ \o [i \in 1..Len(o) |-> Row(o[i], "failed", "")]]
    /\ Goto(t, "GetAllStatuses:Unlock")
    /\ UNCHANGED <<store, mu, filename, errorMsg, ok, disk, life, scanIdx, entry, accepted, handed, calls>>

\* transcription.go:159-166: the only rows that carry Error
GetAllStatusesFailed(t) ==
    /\ pc[t] = "GetAllStatuses:rangeFailed"
    /\ \E o \in Orders(DOMAIN Failed) :
          statuses' = [statuses EXCEPT ![t] =
                         @ \o [i \in 1..Len(o) |-> Row(o[i], "failed", Failed[o[i]])]]
    /\ Goto(t, "GetAllStatuses:Unlock")
    /\ UNCHANGED <<store, mu, filename, errorMsg, ok, disk, life, scanIdx, entry, accepted, handed, calls>>

\* return statuses: the caller encodes the rows into its response and ends
GetAllStatusesUnlock(t) ==
    /\ pc[t] = "GetAllStatuses:Unlock"
    /\ Unlock(t)
    /\ entry' = [entry EXCEPT ![t] = EmptyStore]
    /\ Goto(t, ReturnPc(t))
    /\ statuses' = [statuses EXCEPT ![t] = <<>>]
    /\ UNCHANGED <<store, filename, errorMsg, ok, disk, life, scanIdx, accepted, handed, calls>>

GetAllStatusesBody(t) ==
    \/ GetAllStatusesQueue(t)
    \/ GetAllStatusesInProcess(t)
    \/ GetAllStatusesCompleted(t)
    \/ GetAllStatusesFailed(t)
    \/ GetAllStatusesUnlock(t)

(* ------------------------ transcriptionWorker ------------------------- *)
\* transcription.go:176-180: time.Sleep(5 * time.Second); continue
WorkerSleep ==
    /\ pc[Worker] = "Sleep"
    /\ Goto(Worker, "GetNext:Lock")
    /\ UNCHANGED <<store, mu, locals, disk, life, scanIdx, entry, accepted, handed, calls>>

\* what a step of the pipeline leaves alone besides the disk, the worker's err
\* and the count of failures
jobFrame == <<store, mu, filename, ok, statuses, scanIdx, entry, accepted, handed,
              calls, restarts, past, removed>>

\* a tool or the file system fails, or the process is killed: at most
\* MaxFailures times in a run
Failure ==
    /\ failures < MaxFailures
    /\ failures' = failures + 1

\* mutant of PipelineReturn: on an error the worker writes the .failed file but
\* does not call MarkFailed
PipelineReturnSkipMark(e) ==
    /\ errorMsg' = [errorMsg EXCEPT ![Worker] = e]
    /\ Goto(Worker, IF e = NoErr THEN "MarkCompleted:Lock" ELSE "WriteFailedFile")

\* transcription.go:185-198: err := processTranscription(filename) has returned
\* e; if err != nil the worker calls MarkFailed, else MarkCompleted
PipelineReturn(e) ==
    /\ errorMsg' = [errorMsg EXCEPT ![Worker] = e]
    /\ Goto(Worker, IF e = NoErr THEN "MarkCompleted:Lock" ELSE "MarkFailed:Lock")

\* mutant of StatAndClassify: the media file is not looked for
StatAndClassifyNoStat ==
    /\ pc[Worker] = "processTranscription"
    /\ IF ~isVideo(filename[Worker]) /\ ~isAudio(filename[Worker])
         THEN PipelineReturn("unsupported file type: " \o filename[Worker])
       ELSE /\ Goto(Worker, IF isVideo(filename[Worker])
                              THEN "extractAudioFromVideo" ELSE "runWhisperX")
            /\ UNCHANGED errorMsg
    /\ UNCHANGED <<jobFrame, disk, failures>>

\* mutant of StatAndClassify: the audio of every file is extracted
StatAndClassifyAllExtract ==
    /\ pc[Worker] = "processTranscription"
    /\ IF filename[Worker] \notin mediaFiles
         THEN PipelineReturn("file does not exist: data/media/" \o filename[Worker])
       ELSE IF ~isVideo(filename[Worker]) /\ ~isAudio(filename[Worker])
         THEN PipelineReturn("unsupported file type: " \o filename[Worker])
       ELSE /\ Goto(Worker, "extractAudioFromVideo")
            /\ UNCHANGED errorMsg
    /\ UNCHANGED <<jobFrame, disk, failures>>

\* transcription.go:240-267: os.Stat of the media file, isVideo, isAudio
StatAndClassify ==
    /\ pc[Worker] = "processTranscription"
    /\ IF filename[Worker] \notin mediaFiles
         THEN PipelineReturn("file does not exist: data/media/" \o filename[Worker])
       ELSE IF ~isVideo(filename[Worker]) /\ ~isAudio(filename[Worker])
         THEN PipelineReturn("unsupported file type: " \o filename[Worker])
       ELSE /\ Goto(Worker, IF isVideo(filename[Worker])
                              THEN "extractAudioFromVideo" ELSE "runWhisperX")
            /\ UNCHANGED errorMsg
    /\ UNCHANGED <<jobFrame, disk, failures>>

FfmpegError == Wrap("failed to extract audio", "ffmpeg error: " \o ExitError \o ", output: ")

\* transcription.go:257-263, 291-298: ffmpeg writes transcripts/<f>.wav.  It is
\* run without -y and without a terminal, so it exits non-zero when that file
\* already exists.
extractAudioFromVideo ==
    /\ pc[Worker] = "extractAudioFromVideo"
    /\ IF filename[Worker] \in scratchWav
         THEN /\ PipelineReturn(FfmpegError)
              /\ UNCHANGED scratchWav
         ELSE /\ scratchWav' = scratchWav \cup {filename[Worker]}
              /\ Goto(Worker, "runWhisperX")
              /\ UNCHANGED errorMsg
    /\ UNCHANGED <<jobFrame, mediaFiles, transcriptJson, failedMarker, scratchDirs,
                   metadataMd, metadataJson, failures>>

\* ffmpeg exits non-zero
extractAudioFromVideoFails ==
    /\ pc[Worker] = "extractAudioFromVideo"
    /\ Failure
    /\ PipelineReturn(FfmpegError)
    /\ UNCHANGED <<jobFrame, disk>>

WhisperX == "whisperx transcription failed"

\* transcription.go:303-323: os.MkdirTemp, defer os.RemoveAll, os.Chmod, and the
\* audio copied into the temp directory
runWhisperXPrepare ==
    /\ pc[Worker] = "runWhisperX"
    /\ scratchDirs' = scratchDirs + 1
    /\ Goto(Worker, "podman run")
    /\ UNCHANGED <<jobFrame, errorMsg, mediaFiles, transcriptJson, failedMarker, scratchWav,
                   metadataMd, metadataJson, failures>>

\* the errors runWhisperX returns before it starts the tool: MkdirTemp fails
\* (line 305), or reading or copying the audio fails (lines 318, 322: the
\* deferred RemoveAll has removed the temp directory again)
PrepareErrors ==
    { Wrap("failed to create temp directory", IOError),
      Wrap("failed to read audio file error", IOError) }

runWhisperXPrepareFails ==
    /\ pc[Worker] = "runWhisperX"
    /\ Failure
    /\ \E e \in PrepareErrors : PipelineReturn(Wrap(WhisperX, e))
    /\ UNCHANGED <<jobFrame, disk>>

\* the memory of the process is gone when it ends; past keeps, for the
\* history, the state every file was in
ProcessEnds(how) ==
    /\ past' = [f \in Files |->
                  CASE f \in Range(Queue) \cup InProcess -> "pending"
                    [] f \in Completed -> "completed"
                    [] f \in DOMAIN Failed -> "failed"
                    [] OTHER -> past[f]]
    /\ Queue' = <<>>
    /\ InProcess' = {}
    /\ Completed' = {}
    /\ Failed' = <<>>
    /\ mu' = ""
    /\ pc' = [t \in Threads |-> how]
    /\ filename' = [t \in Threads |-> ""]
    /\ errorMsg' = [t \in Threads |-> ""]
    /\ ok' = [t \in Threads |-> FALSE]
    /\ statuses' = [t \in Threads |-> <<>>]
    /\ scanIdx' = 1
    /\ entry' = [t \in Threads |-> EmptyStore]
    /\ accepted' = <<>>
    /\ handed' = <<>>

\* transcription.go:309-312: os.Chmod fails and log.Fatal(err) ends the process
\* at once: the deferred RemoveAll does not run
runWhisperXChmodFatal ==
    /\ pc[Worker] = "runWhisperX"
    /\ Failure
    /\ scratchDirs' = scratchDirs + 1
    /\ ProcessEnds("fatal")
    /\ UNCHANGED <<mediaFiles, transcriptJson, failedMarker, scratchWav, metadataMd,
                   metadataJson, restarts, removed, calls>>

\* transcription.go:326-398: the tool has run and exited with 0; its output is
\* found, parsed, converted and written as transcripts/<f>.json; the deferred
\* RemoveAll removes the temp directory
runWhisperXRun ==
    /\ pc[Worker] = "podman run"
    /\ transcriptJson' = Put(transcriptJson, filename[Worker],
                             TranscriptEntries(Speech(filename[Worker])))
    /\ scratchDirs' = scratchDirs - 1
    /\ Goto(Worker, IF isVideo(filename[Worker])
                      THEN "os.Remove" ELSE "updateMetadataWithTranscript")
    /\ UNCHANGED <<jobFrame, errorMsg, mediaFiles, failedMarker, scratchWav,
                   metadataMd, metadataJson, failures>>

\* mutant of runWhisperXRunFails: the transcript is written although the tool
\* failed
runWhisperXRunFailsKeepsOutput ==
    /\ pc[Worker] = "podman run"
    /\ Failure
    /\ scratchDirs' = scratchDirs - 1
    /\ transcriptJson' = Put(transcriptJson, filename[Worker], <<>>)
    /\ PipelineReturn(Wrap("whisperx transcription failed",
                           "whisperx error: " \o ExitError \o ", output: "))
    /\ UNCHANGED <<jobFrame, mediaFiles, failedMarker, scratchWav, metadataMd, metadataJson>>

\* the errors runWhisperX returns once the tool has been started: it exits
\* non-zero (line 329); its output cannot be listed, is not there, cannot be
\* read or parsed, or has no segments array (lines 335-365); the transcript
\* cannot be written (line 396)
RunErrors ==
    { "whisperx error: " \o ExitError \o ", output: ",
      Wrap("failed to read whisperx output directory", IOError),
      "no JSON output found from whisperx",
      Wrap("failed to read whisperx output", IOError),
      Wrap("failed to parse whisperx output", "unexpected end of JSON input"),
      "invalid whisperx output format",
      Wrap("failed to write transcript file", IOError) }

runWhisperXRunFails ==
    /\ pc[Worker] = "podman run"
    /\ Failure
    /\ scratchDirs' = scratchDirs - 1
    /\ \E e \in RunErrors : PipelineReturn(Wrap(WhisperX, e))
    /\ UNCHANGED <<jobFrame, mediaFiles, transcriptJson, failedMarker, scratchWav,
                   metadataMd, metadataJson>>

\* transcription.go:276-280: os.Remove of the scratch audio of a video
RemoveScratchAudio ==
    /\ pc[Worker] = "os.Remove"
    /\ scratchWav' = scratchWav \ {filename[Worker]}
    /\ Goto(Worker, "updateMetadataWithTranscript")
    /\ UNCHANGED <<jobFrame, errorMsg, mediaFiles, transcriptJson, failedMarker, scratchDirs,
                   metadataMd, metadataJson, failures>>

\* the removal fails: a warning is logged and the pipeline goes on
RemoveScratchAudioFails ==
    /\ pc[Worker] = "os.Remove"
    /\ Failure
    /\ Goto(Worker, "updateMetadataWithTranscript")
    /\ UNCHANGED <<jobFrame, errorMsg, disk>>

UpdateMetadata == "failed to update metadata"

\* transcription.go:403-448: reads transcripts/<f>.json and metadata/<f>.json,
\* sets Transcripts and Transcription, writes metadata/<f>.json.  No other
\* goroutine writes metadata/<f>.json, so the read and the write are one step.
updateMetadataWithTranscript ==
    /\ pc[Worker] = "updateMetadataWithTranscript"
    /\ IF filename[Worker] \notin DOMAIN metadataJson
         THEN /\ PipelineReturn(Wrap(UpdateMetadata,
                                     Wrap("failed to read metadata file", NotExistError)))
              /\ UNCHANGED metadataJson
         ELSE /\ metadataJson' =
                    [metadataJson EXCEPT ![filename[Worker]] =
                        MarshalMetadata(
                          [UnmarshalMetadata(@) EXCEPT
                              !.Transcripts = transcriptJson[filename[Worker]],
                              !.Transcription = fullText(transcriptJson[filename[Worker]])])]
              /\ PipelineReturn(NoErr)
    /\ UNCHANGED <<jobFrame, mediaFiles, transcriptJson, failedMarker, scratchWav,
                   scratchDirs, metadataMd, failures>>

\* the errors of the file system in updateMetadataWithTranscript (lines 407,
\* 419, 445)
MetadataErrors ==
    { Wrap("failed to read transcript file", IOError),
      Wrap("failed to read metadata file", IOError),
      Wrap("failed to write updated metadata", IOError) }

updateMetadataWithTranscriptFails ==
    /\ pc[Worker] = "updateMetadataWithTranscript"
    /\ Failure
    /\ \E e \in MetadataErrors : PipelineReturn(Wrap(UpdateMetadata, e))
    /\ UNCHANGED <<jobFrame, disk>>

\* transcription.go:185: err := processTranscription(filename), with the tools
\* and the file system working
ProcessTranscription ==
    \/ StatAndClassify
    \/ extractAudioFromVideo
    \/ runWhisperXPrepare
    \/ runWhisperXRun
    \/ RemoveScratchAudio
    \/ updateMetadataWithTranscript

\* the steps of processTranscription at which a tool or the file system fails
ProcessTranscriptionFails ==
    \/ extractAudioFromVideoFails
    \/ runWhisperXPrepareFails
    \/ runWhisperXChmodFatal
    \/ runWhisperXRunFails
    \/ RemoveScratchAudioFails
    \/ updateMetadataWithTranscriptFails

\* mutant of WriteFailedFile: the marker says only that the job failed
WriteFailedFileNoText ==
    /\ pc[Worker] = "WriteFailedFile"
    /\ failedMarker' = Put(failedMarker, filename[Worker], "failed")
    /\ removed' = removed \ {filename[Worker]}
    /\ filename' = [filename EXCEPT ![Worker] = ""]
    /\ errorMsg' = [errorMsg EXCEPT ![Worker] = ""]
    /\ Goto(Worker, "GetNext:Lock")
    /\ UNCHANGED <<store, mu, ok, statuses, mediaFiles, transcriptJson, scratchWav,
                   scratchDirs, metadataMd, metadataJson, failures, restarts, past,
                   scanIdx, entry, accepted, handed, calls>>

\* transcription.go:190-194: os.WriteFile(<filename>.failed, err.Error())
WriteFailedFile ==
    /\ pc[Worker] = "WriteFailedFile"
    /\ failedMarker' = Put(failedMarker, filename[Worker], errorMsg[Worker])
    /\ removed' = removed \ {filename[Worker]}
    /\ filename' = [filename EXCEPT ![Worker] = ""]
    /\ errorMsg' = [errorMsg EXCEPT ![Worker] = ""]
    /\ Goto(Worker, "GetNext:Lock")
    /\ UNCHANGED <<store, mu, ok, statuses, mediaFiles, transcriptJson, scratchWav,
                   scratchDirs, metadataMd, metadataJson, failures, restarts, past,
                   scanIdx, entry, accepted, handed, calls>>

\* transcription.go:192-194: the write fails; that is logged and nothing else.
\* The write follows the failure of the job, so it may fail once more after the
\* failures of the run are used up.
WriteFailedFileFails ==
    /\ pc[Worker] = "WriteFailedFile"
    /\ failures <= MaxFailures
    /\ failures' = failures + 1
    /\ filename' = [filename EXCEPT ![Worker] = ""]
    /\ errorMsg' = [errorMsg EXCEPT ![Worker] = ""]
    /\ Goto(Worker, "GetNext:Lock")
    /\ UNCHANGED <<store, mu, ok, statuses, disk, restarts, past, removed,
                   scanIdx, entry, accepted, handed, calls>>

\* after a job the worker calls exactly the Mark method of its outcome
WorkerMark == MarkFailed(Worker) \/ MarkCompleted(Worker)

transcriptionWorker ==
    \/ GetNext(Worker)
    \/ WorkerSleep
    \/ ProcessTranscription
    \/ WorkerMark
    \/ WriteFailedFile

\* the steps of the worker at which a tool or the file system fails
transcriptionWorkerFails ==
    \/ ProcessTranscriptionFails
    \/ WriteFailedFileFails

(* ---------------------- checkExistingMediaFiles ----------------------- *)
\* file.IsDir() of a directory entry
IsDir(f) == f = SubDir

\* mutant of ScannerEnqueues: the scanner does not look for <f>.json
ScannerEnqueuesIgnoresTranscript(f) ==
    /\ ~IsDir(f)
    /\ ScannerSuffix(f)
    /\ f \notin DOMAIN failedMarker

\* mutant of ScannerEnqueues: the scanner does not look for <f>.failed
ScannerEnqueuesIgnoresFailed(f) ==
    /\ ~IsDir(f)
    /\ ScannerSuffix(f)
    /\ f \notin DOMAIN transcriptJson

\* transcription.go:211-229: the entry is no directory, has the suffix of a
\* media file, and os.Stat finds neither <f>.json nor <f>.failed
ScannerEnqueues(f) ==
    /\ ~IsDir(f)
    /\ ScannerSuffix(f)
    /\ f \notin DOMAIN transcriptJson
    /\ f \notin DOMAIN failedMarker

\* the loop over the directory listing, one entry of DirListing a step (an
\* entry that is not in the directory is not in the listing)
checkExistingMediaFiles ==
    /\ pc[Scanner] = "scan"
    /\ IF scanIdx > Len(DirListing)
         THEN /\ Goto(Scanner, "done")
              /\ UNCHANGED <<filename, scanIdx>>
         ELSE /\ scanIdx' = scanIdx + 1
              /\ IF /\ DirListing[scanIdx] \in mediaFiles \cup {SubDir}
                    /\ ScannerEnqueues(DirListing[scanIdx])
                   THEN /\ filename' = [filename EXCEPT ![Scanner] = DirListing[scanIdx]]
                        /\ Goto(Scanner, "AddToQueue:Lock")
                   ELSE UNCHANGED <<filename, pc>>
    /\ UNCHANGED <<store, mu, errorMsg, ok, statuses, disk, life, entry, accepted, handed, calls>>

\* transcription.go:204-208: os.ReadDir fails; the scanner logs that and returns
checkExistingMediaFilesFails ==
    /\ pc[Scanner] = "scan"
    /\ scanIdx = 1
    /\ Failure
    /\ Goto(Scanner, "done")
    /\ UNCHANGED <<store, mu, locals, disk, restarts, past, removed, scanIdx, entry,
                   accepted, handed, calls>>

\* main: http.ListenAndServe runs once InitTranscriptionSystem has returned
Serving == pc[Scanner] = "done"

(* ----------------------------- handlers ------------------------------- *)
\* A call made by a handler is modelled from the moment its Lock succeeds: a
\* goroutine blocked in Lock has done nothing yet.  A request uploads one file.

\* the filenames of the uploads
UploadNames == Files \cup {Photo}

\* handleUpload, transcription.go:736-870, for an audio or video file: the
\* media file and its <f>.md record are written, then TQueue.AddToQueue(filename)
handleUpload(u) ==
    /\ Serving
    /\ pc[u] = "idle"
    /\ \E f \in UploadNames :
          /\ mediaType(f) \in {"audio", "video"}
          /\ filename' = [filename EXCEPT ![u] = f]
          /\ mediaFiles' = mediaFiles \cup {f}
          /\ metadataMd' = Put(metadataMd, f, MarkdownRecord(f))
    /\ Lock(u)
    /\ entry' = [entry EXCEPT ![u] = StoreRec]
    /\ Goto(u, "AddToQueue:check")
    /\ UNCHANGED <<store, errorMsg, ok, statuses, transcriptJson, failedMarker, scratchWav,
                   scratchDirs, metadataJson, life, scanIdx, accepted, handed, calls>>

\* handleUpload for a file of any other type: written with its record, not
\* enqueued (transcription.go:867)
handleUploadOther(u) ==
    /\ Serving
    /\ pc[u] = "idle"
    /\ \E f \in UploadNames :
          /\ mediaType(f) \notin {"audio", "video"}
          /\ mediaFiles' = mediaFiles \cup {f}
          /\ metadataMd' = Put(metadataMd, f, MarkdownRecord(f))
    /\ UNCHANGED <<store, mu, pc, locals, transcriptJson, failedMarker, scratchWav,
                   scratchDirs, metadataJson, life, scanIdx, entry, accepted, handed, calls>>

\* mutant of handleUploadFails: the file is enqueued although its record could
\* not be written
handleUploadFailsEnqueues(u) ==
    /\ Serving
    /\ pc[u] = "idle"
    /\ Failure
    /\ \E f \in UploadNames :
          /\ mediaType(f) \in {"audio", "video"}
          /\ filename' = [filename EXCEPT ![u] = f]
          /\ mediaFiles' = mediaFiles \cup {f}
    /\ Lock(u)
    /\ entry' = [entry EXCEPT ![u] = StoreRec]
    /\ Goto(u, "AddToQueue:check")
    /\ UNCHANGED <<store, errorMsg, ok, statuses, transcriptJson, failedMarker, scratchWav,
                   scratchDirs, metadataMd, metadataJson, restarts, past, removed,
                   scanIdx, accepted, handed, calls>>

\* handleUpload when the file system fails: os.Create fails (line 749) and
\* nothing is written, or dst.Write (line 756) or writeMarkdownFile (line 861)
\* fails and the media file is there without a record; either way the loop
\* continues without AddToQueue
handleUploadFails(u) ==
    /\ Serving
    /\ pc[u] = "idle"
    /\ Failure
    /\ \E f \in UploadNames :
          \/ UNCHANGED mediaFiles
          \/ mediaFiles' = mediaFiles \cup {f}
    /\ UNCHANGED <<store, mu, pc, locals, transcriptJson, failedMarker, scratchWav,
                   scratchDirs, metadataMd, metadataJson, restarts, past, removed,
                   scanIdx, entry, accepted, handed, calls>>

\* handleTranscriptionStatus, transcription.go:1046: TQueue.GetAllStatuses()
handleTranscriptionStatus(o) ==
    /\ Serving
    /\ pc[o] = "idle"
    /\ Lock(o)
    /\ entry' = [entry EXCEPT ![o] = StoreRec]
    /\ Goto(o, "GetAllStatuses:rangeQueue")
    /\ UNCHANGED <<store, locals, disk, life, scanIdx, accepted, handed, calls>>

Next ==
    \/ transcriptionWorker
    \/ checkExistingMediaFiles
    \/ AddToQueue(Scanner)
    \/ \E u \in Uploaders : handleUpload(u) \/ handleUploadOther(u) \/ AddToQueueBody(u)
    \/ \E o \in Observers : handleTranscriptionStatus(o) \/ GetAllStatusesBody(o)

Spec == Init /\ [][Next]_vars

\* Spec with the goroutines scheduled fairly: the worker always takes its next
\* step, and gets the mutex when it is free again and again (a sync.Mutex
\* hands the lock to a goroutine that has waited); the scanner and every
\* handler inside a method of the queue go on to its end
SpecFair ==
    /\ Spec
    /\ SF_vars(transcriptionWorker)
    /\ WF_vars(checkExistingMediaFiles)
    /\ SF_vars(AddToQueue(Scanner))
    /\ \A u \in Uploaders : WF_vars(AddToQueueBody(u))
    /\ \A o \in Observers : WF_vars(GetAllStatusesBody(o))

(* ------------------- the server over several lifetimes ---------------- *)
\* the process is killed, or the machine goes down, at any point: one of the
\* failures of a run
Crash ==
    /\ restarts < MaxRestarts
    /\ pc[Worker] \notin {"killed", "fatal"}
    /\ Failure
    /\ ProcessEnds("killed")
    /\ UNCHANGED <<disk, restarts, removed, calls>>

\* an operator stops the server while it has nothing to do
Shutdown ==
    /\ restarts < MaxRestarts
    /\ Serving
    /\ pc[Worker] = "Sleep"
    /\ Queue = <<>>
    /\ mu = ""
    /\ ProcessEnds("killed")
    /\ UNCHANGED <<disk, failures, restarts, removed, calls>>

\* the process is started again on the same data directory
Restart ==
    /\ restarts < MaxRestarts
    /\ pc[Worker] \in {"killed", "fatal"}
    /\ restarts' = restarts + 1
    /\ pc' = [t \in Threads |-> CASE t = Worker -> "GetNext:Lock"
                                  [] t = Scanner -> "scan"
                                  [] OTHER -> "idle"]
    /\ UNCHANGED <<store, mu, locals, disk, failures, past, removed, scanIdx, entry,
                   accepted, handed, calls>>

\* an operator removes the marker transcripts/<f>.failed to have f tried
\* again, while the process is down (the running process reads a marker only
\* in its scanner)
RemoveFailedMarker ==
    /\ pc[Worker] \in {"killed", "fatal"}
    /\ \E f \in DOMAIN failedMarker :
          /\ failedMarker' = Drop(failedMarker, f)
          /\ removed' = removed \cup {f}
    /\ UNCHANGED <<store, mu, pc, locals, mediaFiles, transcriptJson, scratchWav,
                   scratchDirs, metadataMd, metadataJson, failures, restarts, past,
                   scanIdx, entry, accepted, handed, calls>>

\* one lifetime in which the tools and the file system may fail
NextFaults ==
    \/ transcriptionWorker
    \/ transcriptionWorkerFails
    \/ checkExistingMediaFiles
    \/ checkExistingMediaFilesFails
    \/ AddToQueue(Scanner)

SpecFaults == Init /\ [][NextFaults]_vars

\* the one goroutine that uploads in SpecLife
LifeUploader == UploaderNames[1]

NextLife ==
    \/ transcriptionWorker
    \/ transcriptionWorkerFails
    \/ checkExistingMediaFiles
    \/ checkExistingMediaFilesFails
    \/ AddToQueue(Scanner)
    \/ handleUpload(LifeUploader)
    \/ handleUploadFails(LifeUploader)
    \/ AddToQueueBody(LifeUploader)
    \/ Crash
    \/ Shutdown
    \/ Restart
    \/ RemoveFailedMarker

SpecLife == Init /\ [][NextLife]_vars

(* ------------- the TranscriptionQueue type, any client ---------------- *)
\* a client calls any exported method with any arguments
ClientCall(c) ==
    /\ pc[c] = "idle"
    /\ calls < MaxCalls
    /\ calls' = calls + 1
    /\ Lock(c)
    /\ entry' = [entry EXCEPT ![c] = StoreRec]
    /\ \/ /\ \E f \in Files : filename' = [filename EXCEPT ![c] = f]
          /\ Goto(c, "AddToQueue:check")
          /\ UNCHANGED errorMsg
       \/ /\ Goto(c, "GetNext:front")
          /\ UNCHANGED <<filename, errorMsg>>
       \/ /\ \E f \in Files : filename' = [filename EXCEPT ![c] = f]
          /\ Goto(c, "MarkCompleted:delete")
          /\ UNCHANGED errorMsg
       \/ /\ \E f \in Files : filename' = [filename EXCEPT ![c] = f]
          /\ \E e \in ClientErrors : errorMsg' = [errorMsg EXCEPT ![c] = e]
          /\ Goto(c, "MarkFailed:delete")
       \/ /\ Goto(c, "GetAllStatuses:rangeQueue")
          /\ UNCHANGED <<filename, errorMsg>>
    /\ UNCHANGED <<store, ok, statuses, disk, life, scanIdx, accepted, handed>>

NextStore ==
    \E c \in Clients :
        \/ ClientCall(c)
        \/ AddToQueueBody(c)
        \/ GetNextBody(c)
        \/ MarkCompletedBody(c)
        \/ MarkFailedBody(c)
        \/ GetAllStatusesBody(c)

SpecStore == Init /\ [][NextStore]_vars

(* ------------------- processTranscription on any input ---------------- *)
\* the filenames a job may be for, whatever called AddToQueue for them
JobNames == Files \cup {Photo}

\* the worker of a process that starts with jobs queued for any of these names,
\* on a media directory that has any of them
InitJob ==
    /\ Queue \in UNION {Orders(S) : S \in SUBSET JobNames \ {{}}}
    /\ accepted = Queue
    /\ InProcess = {}
    /\ Completed = {}
    /\ Failed = <<>>
    /\ mu = ""
    /\ pc = [t \in Threads |-> CASE t = Worker -> "GetNext:Lock"
                                 [] t = Scanner -> "done"
                                 [] OTHER -> "idle"]
    /\ filename = [t \in Threads |-> ""]
    /\ errorMsg = [t \in Threads |-> ""]
    /\ ok = [t \in Threads |-> FALSE]
    /\ statuses = [t \in Threads |-> <<>>]
    /\ scanIdx = 1
    /\ entry = [t \in Threads |-> EmptyStore]
    /\ handed = <<>>
    /\ mediaFiles \in SUBSET JobNames
    /\ metadataJson = [f \in mediaFiles |-> JsonRecord(f)]
    /\ metadataMd = <<>>
    /\ transcriptJson = <<>>
    /\ failedMarker = <<>>
    /\ scratchWav = {}
    /\ scratchDirs = 0
    /\ failures = 0
    /\ restarts = 0
    /\ past = [f \in Files |-> "none"]
    /\ removed = {}
    /\ calls = 0

SpecJob == InitJob /\ [][transcriptionWorker]_vars

(* ============================== claims ================================ *)
\* the filenames the store knows
Known == Range(Queue) \cup InProcess \cup Completed \cup DOMAIN Failed
KnownIn(e) == Range(e.Queue) \cup e.InProcess \cup e.Completed \cup DOMAIN e.Failed

\* in how many of the four collections f is
Memberships(f) ==
    (IF f \in Range(Queue) THEN 1 ELSE 0) + (IF f \in InProcess THEN 1 ELSE 0)
    + (IF f \in Completed THEN 1 ELSE 0) + (IF f \in DOMAIN Failed THEN 1 ELSE 0)

\* C1: in every reachable state of the running server every filename is in at
\* most one of Queue, InProcess, Completed and Failed.
C1_MutuallyExclusive == \A f \in Files : Memberships(f) <= 1

\* an upload handler has just tried to enqueue again a file that is completed,
\* while another file is failed
C1_Witness ==
    \E u \in Uploaders :
        /\ pc[u] = "AddToQueue:Unlock"
        /\ filename[u] \in Completed
        /\ DOMAIN Failed # {}

\* C2: AddToQueue(f) appends f at the back of Queue when f is in none of the
\* four collections, and changes nothing when f is in any of them, whatever
\* error text MarkFailed recorded for it. Stated at the return of the call,
\* against the store the call found.
C2_AddToQueueContract ==
    \A t \in Threads :
        pc[t] = "AddToQueue:Unlock" =>
            IF filename[t] \in KnownIn(entry[t])
              THEN StoreRec = entry[t]
              ELSE StoreRec = [entry[t] EXCEPT !.Queue = Append(@, filename[t])]

\* C3: MarkCompleted(f) and MarkFailed(f, e) change nothing when f is not in
\* InProcess; when it is, they remove it from InProcess and put it in exactly
\* the one terminal collection of the method.
C3_MarkContract ==
    \A t \in Threads :
        /\ pc[t] = "MarkCompleted:Unlock" =>
              IF filename[t] \notin entry[t].InProcess
                THEN StoreRec = entry[t]
                ELSE /\ filename[t] \notin InProcess
                     /\ filename[t] \in Completed
                     /\ filename[t] \notin DOMAIN Failed
        /\ pc[t] = "MarkFailed:Unlock" =>
              IF filename[t] \notin entry[t].InProcess
                THEN StoreRec = entry[t]
                ELSE /\ filename[t] \notin InProcess
                     /\ filename[t] \in DOMAIN Failed
                     /\ filename[t] \notin Completed

\* C4: Queue never holds the same filename twice, however the AddToQueue calls
\* of the scanner and the upload handlers interleave with each other and GetNext.
C4_NoDuplicateInQueue ==
    \A i, j \in 1..Len(Queue) : Queue[i] = Queue[j] => i = j

\* a second AddToQueue for a filename that is still queued has returned, after
\* the worker has already dequeued something
C4_Witness ==
    \E u \in Uploaders :
        /\ pc[u] = "AddToQueue:Unlock"
        /\ filename[u] \in Range(entry[u].Queue)
        /\ Len(handed) > 0

\* C5: GetNext is FIFO and atomic: filenames leave the queue in the order
\* AddToQueue appended them; a GetNext that found a non-empty queue returns its
\* front, with the front removed from Queue and added to InProcess; and while a
\* status call reads the store no dequeued filename is in neither Queue nor
\* InProcess (nor a terminal collection).
C5_FifoAtomic ==
    /\ accepted = handed \o Queue
    /\ \A t \in Threads :
          (pc[t] = "GetNext:Unlock" /\ entry[t].Queue # <<>>) =>
              /\ ok[t]
              /\ filename[t] = Head(entry[t].Queue)
              /\ Queue = Tail(entry[t].Queue)
              /\ InProcess = entry[t].InProcess \cup {filename[t]}
    /\ \A o \in Observers :
          pc[o] # "idle" => Range(handed) \subseteq InProcess \cup Completed \cup DOMAIN Failed

\* GetNext has returned the front of a queue of two
C5_Witness ==
    /\ pc[Worker] = "GetNext:Unlock"
    /\ Len(entry[Worker].Queue) = 2
    /\ Len(handed) = 1

\* C6: GetNext on an empty Queue returns ("", false), does not wait for a job,
\* and leaves the four collections unchanged.
C6_GetNextEmpty ==
    \A t \in Threads :
        /\ (pc[t] = "GetNext:front" /\ Queue = <<>>) => ENABLED GetNextFront(t)
        /\ (pc[t] = "GetNext:Unlock" /\ entry[t].Queue = <<>>) =>
              /\ filename[t] = ""
              /\ ~ok[t]
              /\ StoreRec = entry[t]

\* the worker polled an empty queue after it had finished a job
C6_Witness ==
    /\ pc[Worker] = "GetNext:Unlock"
    /\ entry[Worker].Queue = <<>>
    /\ Completed # {}

\* the state the store records for a known filename, and its error text
StatusOf(f) ==
    CASE f \in Range(Queue) -> "queued"
      [] f \in InProcess -> "processing"
      [] f \in Completed -> "completed"
      [] OTHER -> "failed"
ErrorOf(f) == IF StatusOf(f) = "failed" THEN FailedGet(f) ELSE ""

RowsFor(r, f) == {i \in 1..Len(r) : r[i].Filename = f}

\* C7: the rows GetAllStatuses returns are exactly one row per known filename,
\* the queued ones first and in queue order, each with the status of the
\* collection that holds the filename; Error is the recorded message on failed
\* rows and empty on all others; and the call has changed nothing in the store.
C7_StatusRows ==
    \A o \in Observers :
        pc[o] = "GetAllStatuses:Unlock" =>
            LET r == statuses[o] IN
            /\ Len(r) = Cardinality(Known)
            /\ \A f \in Known : Cardinality(RowsFor(r, f)) = 1
            /\ \A i \in 1..Len(r) :
                  /\ r[i].Filename \in Known
                  /\ r[i] = Row(r[i].Filename, StatusOf(r[i].Filename), ErrorOf(r[i].Filename))
                  /\ r[i].Error # "" => r[i].Status = "failed"
            /\ \A i \in 1..Len(Queue) : r[i] = Row(Queue[i], "queued", "")
            /\ StoreRec = entry[o]

\* a status call returns a failed row with its message next to a row of
\* another state
C7_Witness ==
    \E o \in Observers :
        /\ pc[o] = "GetAllStatuses:Unlock"
        /\ Len(statuses[o]) = 2
        /\ \E i \in 1..2 : statuses[o][i].Status = "failed" /\ statuses[o][i].Error # ""
        /\ \E i \in 1..2 : statuses[o][i].Status # "failed"

\* C8: every status call returns exactly one row for every filename AddToQueue
\* has accepted so far, also when GetNext, MarkCompleted or MarkFailed are
\* called at the same time.
C8_OneRowPerAccepted ==
    \A o \in Observers :
        pc[o] = "GetAllStatuses:Unlock" =>
            \A f \in Range(accepted) : Cardinality(RowsFor(statuses[o], f)) = 1

\* a status call returns while the worker is blocked in the Lock of
\* MarkCompleted for the file it shows as processing
C8_Witness ==
    \E o \in Observers :
        /\ pc[o] = "GetAllStatuses:Unlock"
        /\ pc[Worker] = "MarkCompleted:Lock"
        /\ \E i \in 1..Len(statuses[o]) :
              statuses[o][i] = Row(filename[Worker], "processing", "")

\* C9: at most one filename is in InProcess in every reachable state.
C9_SingleInProcess == Cardinality(InProcess) <= 1

\* the worker is processing one file while another one waits in the queue
C9_Witness ==
    /\ pc[Worker] = "processTranscription"
    /\ InProcess = {filename[Worker]}
    /\ Len(Queue) >= 1

\* the positions of the worker outside the methods of the queue
WorkerOutside ==
    {"processTranscription", "extractAudioFromVideo", "runWhisperX", "podman run",
     "os.Remove", "updateMetadataWithTranscript", "WriteFailedFile", "Sleep"}

\* C10: the worker never holds the mutex while it is inside
\* processTranscription (nor while it sleeps or writes the .failed file), so
\* during a transcription, however long, the mutex is either free, and every
\* idle handler can start its AddToQueue or GetAllStatuses, or held by a handler
\* whose next step is enabled.
C10_MutexFreeWhileProcessing ==
    pc[Worker] \in WorkerOutside =>
        /\ mu # Worker
        /\ (Serving /\ mu = "") =>
              /\ \A u \in Uploaders : pc[u] = "idle" => ENABLED handleUpload(u)
              /\ \A o \in Observers : pc[o] = "idle" => ENABLED handleTranscriptionStatus(o)
        /\ mu \in Uploaders => ENABLED AddToQueueBody(mu)
        /\ mu \in Observers => ENABLED GetAllStatusesBody(mu)

\* an AddToQueue that started while the worker was inside processTranscription
\* has appended its file, and the worker is still there
C10_Witness ==
    /\ pc[Worker] = "processTranscription"
    /\ \E u \in Uploaders :
          /\ pc[u] = "AddToQueue:Unlock"
          /\ filename[Worker] \in entry[u].InProcess
          /\ Len(Queue) = Len(entry[u].Queue) + 1

\* the worker still holds f as the failed job it is recording
Recording(f) ==
    /\ filename[Worker] = f
    /\ pc[Worker] \in {"MarkFailed:Lock", "MarkFailed:delete", "MarkFailed:set",
                       "MarkFailed:Unlock", "WriteFailedFile"}

\* C11: no error of a job, the failure to prepare the scratch directory of the
\* recognition included, ends the worker or the process: the worker is never
\* ended by an error, and a job that failed is recorded as failed when the
\* worker goes on to its next GetNext.
C11_NoErrorEndsWorker ==
    /\ pc[Worker] # "fatal"
    /\ \A f \in Range(handed) :
          f \in InProcess \cup Completed \cup DOMAIN Failed \/ pc[Worker] = "GetNext:mark"

\* C12: whenever processTranscription(f) returns an error e the worker moves f
\* from InProcess to Failed with the text of e, which is not empty, and writes
\* transcripts/<f>.failed with exactly that text; f is never put in Completed.
C12_FailureRecorded ==
    /\ pc[Worker] \in {"MarkFailed:Lock", "MarkFailed:delete", "MarkFailed:set"} =>
          errorMsg[Worker] \notin {"", NoErr}
    /\ pc[Worker] \in {"MarkFailed:Unlock", "WriteFailedFile"} =>
          /\ filename[Worker] \in DOMAIN Failed
          /\ Failed[filename[Worker]] = errorMsg[Worker]
    /\ \A f \in DOMAIN Failed :
          /\ Failed[f] # ""
          /\ f \notin InProcess \cup Completed
          /\ \/ Recording(f)
             \/ f \in DOMAIN failedMarker /\ failedMarker[f] = Failed[f]

\* C12 as amended: the same, but the marker is there with that text when the
\* write of it succeeded; when the write failed the failure is logged and f is
\* failed in memory only.
C12_FailureRecordedIfWritten ==
    /\ [](/\ pc[Worker] \in {"MarkFailed:Lock", "MarkFailed:delete", "MarkFailed:set"} =>
                errorMsg[Worker] \notin {"", NoErr}
          /\ pc[Worker] \in {"MarkFailed:Unlock", "WriteFailedFile"} =>
                /\ filename[Worker] \in DOMAIN Failed
                /\ Failed[filename[Worker]] = errorMsg[Worker]
          /\ \A f \in DOMAIN Failed :
                /\ Failed[f] # ""
                /\ f \notin InProcess \cup Completed)
    /\ [][(pc[Worker] = "WriteFailedFile" /\ pc'[Worker] = "GetNext:Lock"
             /\ failures' = failures)
              => /\ filename[Worker] \in DOMAIN failedMarker'
                 /\ failedMarker'[filename[Worker]] = Failed[filename[Worker]]]_vars

\* the worker has written the marker of a job that failed in the recognition
\* and has gone on
C12_Witness ==
    /\ pc[Worker] = "GetNext:Lock"
    /\ \E f \in DOMAIN Failed :
          /\ f \in DOMAIN failedMarker
          /\ failedMarker[f] = Failed[f]
          /\ Failed[f] = Wrap(WhisperX, "no JSON output found from whisperx")

\* the error of a job whose recognition tool exited non-zero
ToolExit == Wrap(WhisperX, "whisperx error: " \o ExitError \o ", output: ")

C14_MarkersExclusive ==
    \A f \in Files : ~(f \in DOMAIN transcriptJson /\ f \in DOMAIN failedMarker)

\* the scanner is inside its AddToQueue call for f
ScannerAdds(f) ==
    /\ filename[Scanner] = f
    /\ pc[Scanner] \in {"AddToQueue:Lock", "AddToQueue:check", "AddToQueue:append",
                        "AddToQueue:Unlock"}

\* the lowercased name ends in one of the four suffixes of audio and video
MediaSuffix(f) ==
    \E suffix \in {DotMp3, DotWav, DotMp4, DotMov} : HasSuffix(ToLower(Chars(f)), suffix)

\* C15: the scanner enqueues an entry f of the media directory if and only if
\* f is a regular file whose lowercased name ends in .mp3, .wav, .mp4 or .mov
\* and neither transcripts/<f>.json nor transcripts/<f>.failed exists: every
\* step of its loop over the listing calls AddToQueue(f) in exactly that case,
\* and that call appends f.
C15_ScannerEnqueuesIff ==
    /\ [][(pc[Scanner] = "scan" /\ scanIdx' = scanIdx + 1
             /\ DirListing[scanIdx] \in mediaFiles \cup {SubDir})
              => ((pc'[Scanner] = "AddToQueue:Lock" /\ filename'[Scanner] = DirListing[scanIdx])
                    <=> /\ DirListing[scanIdx] \in mediaFiles
                        /\ DirListing[scanIdx] # SubDir
                        /\ MediaSuffix(DirListing[scanIdx])
                        /\ DirListing[scanIdx] \notin DOMAIN transcriptJson
                        /\ DirListing[scanIdx] \notin DOMAIN failedMarker)]_vars
    /\ [](pc[Scanner] = "AddToQueue:Unlock" => filename[Scanner] \in Range(accepted))

\* after a restart the scanner has gone through a directory with a photo and a
\* subdirectory, has skipped a media file that has a marker and has enqueued
\* one that has none
C15_Witness ==
    /\ restarts = 1
    /\ Serving
    /\ Photo \in mediaFiles
    /\ \E f \in mediaFiles \cap Files :
          /\ f \in DOMAIN transcriptJson \cup DOMAIN failedMarker
          /\ f \notin Range(accepted)
    /\ \E f \in mediaFiles \cap Files :
          /\ f \notin DOMAIN transcriptJson \cup DOMAIN failedMarker
          /\ f \in Range(accepted)

\* C16: when the process ends after f was enqueued and before the job of f had
\* finished (the metadata record updated, or the .failed marker written), the
\* scanner of the next start enqueues f again; a file whose job had finished
\* is not enqueued again.
C16_SelfHealing ==
    /\ (restarts > 0 /\ Serving) =>
          \A f \in Files : past[f] = "pending" => f \in Range(accepted)
    /\ restarts > 0 =>
          \A f \in Files :
              (past[f] = "completed" \/ (past[f] = "failed" /\ f \in DOMAIN failedMarker))
                  => ~ScannerAdds(f)

\* how often f occurs in a sequence
Count(seq, f) == Cardinality({i \in 1..Len(seq) : seq[i] = f})

\* C17: a failed job is never tried again automatically: within one lifetime
\* GetNext never returns its filename again, also when it is uploaded or
\* enqueued again; after a restart it is enqueued only if its .failed marker
\* has been removed.
C17_FailedNeverRetried ==
    /\ \A f \in DOMAIN Failed :
          /\ f \notin Range(Queue) \cup InProcess
          /\ Count(handed, f) = 1
    /\ \A f \in Files :
          (restarts > 0 /\ past[f] = "failed" /\ f \in Range(accepted)) => f \in removed

\* C17 as amended: within one lifetime GetNext never returns the filename of a
\* failed job again; after a restart the scanner enqueues it only if no .failed
\* marker of it exists (removed, or never written); an upload of the filename
\* after the restart enqueues it whatever markers exist.
C17_FailedRetriedOnlyWithoutMarker ==
    /\ \A f \in DOMAIN Failed :
          /\ f \notin Range(Queue) \cup InProcess
          /\ Count(handed, f) = 1
    /\ \A f \in Files :
          (restarts > 0 /\ past[f] = "failed" /\ ScannerAdds(f)) =>
              f \notin DOMAIN failedMarker

\* after a restart the scanner has left out a file that failed in the lifetime
\* before and has its marker, and an upload of a file that failed in this
\* lifetime has returned without enqueuing it
C17_Witness ==
    /\ restarts = 1
    /\ \E f \in mediaFiles \cap Files :
          /\ past[f] = "failed"
          /\ f \in DOMAIN failedMarker
          /\ f \notin DOMAIN transcriptJson
          /\ f \notin Range(accepted)
    /\ pc[LifeUploader] = "AddToQueue:Unlock"
    /\ filename[LifeUploader] \in DOMAIN Failed
    /\ Queue = entry[LifeUploader].Queue

RECURSIVE JoinedBySpaces(_)
\* the texts of the entries with one space between two neighbours
JoinedBySpaces(transcripts) ==
    IF transcripts = <<>> THEN ""
    ELSE IF Len(transcripts) = 1 THEN transcripts[1].Text
    ELSE JoinedBySpaces(SubSeq(transcripts, 1, Len(transcripts) - 1))
             \o " " \o transcripts[Len(transcripts)].Text

\* C18: once the integration of f has succeeded, the transcription of its
\* record is the texts of its transcripts joined by single spaces: n - 1
\* separators for n segments, none leading or trailing, and the empty string
\* for no segments.
C18_TranscriptionJoined ==
    \A f \in Completed :
        UnmarshalMetadata(metadataJson[f]).Transcription =
            JoinedBySpaces(UnmarshalMetadata(metadataJson[f]).Transcripts)

\* C19: clip.mp4 is uploaded through the upload handler and enqueued, the tools
\* succeed and the recognition returns the segments "hello" and "world": once
\* the job is over its status is Completed and the metadata record holds two
\* transcripts with the segment indices 0 and 1 and the transcription
\* "hello world ".
C19_EndToEnd ==
    ("clip.mp4" \in DOMAIN metadataMd /\ "clip.mp4" \in Completed \cup DOMAIN Failed) =>
        /\ "clip.mp4" \in Completed
        /\ "clip.mp4" \in DOMAIN metadataJson
        /\ Len(UnmarshalMetadata(metadataJson["clip.mp4"]).Transcripts) = 2
        /\ UnmarshalMetadata(metadataJson["clip.mp4"]).Transcripts[1].Segment = 0
        /\ UnmarshalMetadata(metadataJson["clip.mp4"]).Transcripts[2].Segment = 1
        /\ UnmarshalMetadata(metadataJson["clip.mp4"]).Transcription = "hello world "

\* the error of a job whose integration found no metadata/<f>.json
MissingMetadata == Wrap(UpdateMetadata, Wrap("failed to read metadata file", NotExistError))

\* C20: the integration reads and rewrites the record the upload handler
\* created for f, in the same place and format: a file that went through the
\* upload handler never fails with the missing-metadata error, and when its
\* job has completed the record of the upload holds the transcription.
C20_SameRecord ==
    /\ \A f \in DOMAIN Failed : Failed[f] = MissingMetadata => f \notin DOMAIN metadataMd
    /\ \A f \in Completed \cap DOMAIN metadataMd :
          metadataMd[f].Transcription = UnmarshalMetadata(metadataJson[f]).Transcription

\* an element of the segments array that is an object whose start and end are
\* numbers and whose text is a string
WellFormed(seg) ==
    /\ seg[1] = "object"
    /\ seg[2].start[1] = "number"
    /\ seg[2].end[1] = "number"
    /\ seg[2].text[1] = "string"

\* C21: every element of the segments array whose start or end is not a number
\* or whose text is not a string is dropped: the transcript written for f has
\* exactly one entry per well-formed element, and none for any other element.
C21_MalformedDropped ==
    \A f \in DOMAIN transcriptJson :
        /\ \A k \in 1..Len(transcriptJson[f]) :
              WellFormed(Speech(f)[transcriptJson[f][k].Segment + 1])
        /\ Len(transcriptJson[f]) = Len(SelectSeq(Speech(f), WellFormed))

\* C22: the segment index of every transcript entry is the 0-based position of
\* its element in the segments array of the recognizer, also when earlier
\* elements were skipped, and the entries are in strictly increasing order of
\* that index.
C22_SegmentIsPosition ==
    \A f \in DOMAIN transcriptJson :
        LET t == transcriptJson[f]
            s == Speech(f)
        IN  /\ Len(t) = Cardinality({i \in 1..Len(s) : s[i][1] = "object"})
            /\ \A k \in 1..Len(t) :
                  /\ t[k].Segment \in 0..(Len(s) - 1)
                  /\ s[t[k].Segment + 1][1] = "object"
                  /\ t[k].Start = AsFloat(s[t[k].Segment + 1][2].start)
                  /\ t[k].End = AsFloat(s[t[k].Segment + 1][2].end)
                  /\ t[k].Text = AsString(s[t[k].Segment + 1][2].text)
                  /\ k > 1 => t[k - 1].Segment < t[k].Segment

\* a transcript has been written in which an entry follows a skipped element
C22_Witness ==
    \E f \in DOMAIN transcriptJson :
        \E k \in 1..Len(transcriptJson[f]) : transcriptJson[f][k].Segment # k - 1

\* the fields of a metadata record other than transcripts and transcription
IdentityKeys == {"id", "filename", "path", "type", "timestamp", "duration", "labels"}

\* C23: the integration changes only the transcripts and the transcription of
\* the metadata record: when a step rewrites the record of f, every other field
\* (id, filename, path, type, timestamp, duration, labels) is in the record
\* after the step exactly when it was in it before, with the same value.
C23_OnlyTranscriptFieldsChange ==
    [][\A f \in DOMAIN metadataJson :
          /\ f \in DOMAIN metadataJson'
          /\ \A k \in IdentityKeys :
                /\ k \in DOMAIN metadataJson'[f] <=> k \in DOMAIN metadataJson[f]
                /\ k \in DOMAIN metadataJson[f] => metadataJson'[f][k] = metadataJson[f][k]]_vars

\* the integration has rewritten the record of a file with its transcripts
C23_Witness ==
    \E f \in Completed :
        /\ "transcripts" \in DOMAIN metadataJson[f]
        /\ metadataJson[f]["transcription"] # ""

\* the positions of a goroutine inside AddToQueue
InAddToQueue == {"AddToQueue:Lock", "AddToQueue:check", "AddToQueue:append",
                 "AddToQueue:Unlock"}

\* C24: the upload handler calls AddToQueue(f) only after the media file and
\* the metadata record of f have been written, and only for audio and video;
\* an upload at which the file system fails leaves its handler outside
\* AddToQueue, so nothing is enqueued for it.
C24_EnqueueAfterPersist ==
    /\ [](\A u \in Uploaders :
            pc[u] \in InAddToQueue =>
                /\ filename[u] \in mediaFiles
                /\ filename[u] \in DOMAIN metadataMd
                /\ mediaType(filename[u]) \in {"audio", "video"})
    /\ [][\A u \in Uploaders :
            (pc[u] = "idle" /\ failures' # failures) =>
                (pc'[u] \notin InAddToQueue /\ Len(accepted') <= Len(accepted))]_vars

\* an upload has failed after its media file was written, and the handler of a
\* later upload is about to append its file to the queue
C24_Witness ==
    /\ \E u \in Uploaders : pc[u] = "AddToQueue:append"
    /\ \E g \in mediaFiles \cap Files :
          /\ g \notin DOMAIN metadataMd \cup DOMAIN metadataJson
          /\ g \notin Range(Queue) \cup InProcess \cup Completed \cup DOMAIN Failed

\* processTranscription has just returned to the worker
Returned == pc[Worker] \in {"MarkFailed:Lock", "MarkCompleted:Lock"}

\* C25: when processTranscription returns for a video, transcripts/<f>.wav no
\* longer exists, whether the recognition and the integration succeeded or
\* failed; the one exception is a removal that itself failed, which cannot be
\* the case when the recognition returned the error (the removal was not yet
\* tried) nor when nothing has failed at all.
C25_ScratchAudioRemoved ==
    (Returned /\ isVideo(filename[Worker])) =>
        /\ errorMsg[Worker] \in {Wrap(WhisperX, e) : e \in PrepareErrors \cup RunErrors} =>
              filename[Worker] \notin scratchWav
        /\ failures = 0 => filename[Worker] \notin scratchWav

\* C26: a recognition has one scratch directory of its own, and whenever the
\* recognition stage is not running, whichever way it was left, no scratch
\* directory exists.
C26_ScratchDirRemoved ==
    /\ scratchDirs <= 1
    /\ pc[Worker] # "podman run" => scratchDirs = 0

\* the errors of the three stages, each with the prefix of its stage
ExtractionErrors == {FfmpegError}
RecognitionErrors == {Wrap(WhisperX, e) : e \in PrepareErrors \cup RunErrors}
IntegrationErrors ==
    {Wrap(UpdateMetadata, e) :
        e \in MetadataErrors \cup {Wrap("failed to read metadata file", NotExistError)}}

\* the stage the worker is in, and the errors of that stage
StageErrors ==
    CASE pc[Worker] = "extractAudioFromVideo" -> ExtractionErrors
      [] pc[Worker] \in {"runWhisperX", "podman run"} -> RecognitionErrors
      [] pc[Worker] = "updateMetadataWithTranscript" -> IntegrationErrors
      [] OTHER -> {}

\* C27: a failure in a stage ends the pipeline at once with an error that has
\* the prefix of that stage and that the worker records: the worker's next
\* step is MarkFailed with that error.  After a failed extraction no
\* transcript exists and the record is as it was; after a failed recognition
\* the record is as it was.
C27_StageFailureAborts ==
    /\ [](Returned /\ errorMsg[Worker] \in ExtractionErrors \cup RecognitionErrors =>
            /\ errorMsg[Worker] \in ExtractionErrors =>
                  filename[Worker] \notin DOMAIN transcriptJson
            /\ filename[Worker] \in DOMAIN metadataJson =>
                  metadataJson[filename[Worker]] = JsonRecord(filename[Worker]))
    /\ [][(failures' # failures /\ pc'[Worker] # pc[Worker] /\ StageErrors # {}) =>
            /\ pc'[Worker] = "MarkFailed:Lock"
            /\ errorMsg'[Worker] \in StageErrors]_vars

\* the positions of the worker inside the stages of the pipeline
InStages == {"extractAudioFromVideo", "runWhisperX", "podman run", "os.Remove",
             "updateMetadataWithTranscript"}

\* the error of the classification for f
ClassificationError(f) ==
    IF f \notin mediaFiles THEN "file does not exist: data/media/" \o f
    ELSE "unsupported file type: " \o f

\* C28: a job whose media file is missing, or whose lowercased name ends in
\* none of .mp3, .wav, .mp4, .mov, fails before any tool is run: the worker is
\* never in a stage for it, no scratch audio and no transcript of it is
\* written, its record is as it was, no scratch directory exists while it is
\* the job, and once the worker has recorded it, it is Failed with the error of
\* the classification.
C28_FailsFast ==
    \A f \in Range(handed) :
        (f \notin mediaFiles \/ ~MediaSuffix(f)) =>
            /\ f \notin scratchWav
            /\ f \notin DOMAIN transcriptJson
            /\ f \notin Completed
            /\ f \in DOMAIN metadataJson => metadataJson[f] = JsonRecord(f)
            /\ filename[Worker] = f =>
                  /\ pc[Worker] \notin InStages \cup {"MarkCompleted:Lock"}
                  /\ scratchDirs = 0
                  /\ Returned => errorMsg[Worker] = ClassificationError(f)
            /\ filename[Worker] # f =>
                  /\ f \in DOMAIN Failed
                  /\ Failed[f] = ClassificationError(f)

\* a job for a photo and a job for a file that is not there have both failed,
\* and their markers are written
C28_Witness ==
    /\ Photo \in mediaFiles \cap DOMAIN Failed \cap DOMAIN failedMarker
    /\ \E f \in DOMAIN Failed \cap DOMAIN failedMarker : f \notin mediaFiles /\ MediaSuffix(f)

\* C29: the extraction runs exactly for video inputs: the worker is in the
\* extraction only for a name that ends in .mp4 or .mov, the recognition of a
\* video finds its scratch audio and that of an audio file has none, and the
\* original media file of the job is there; no step of the program removes a
\* media file.
C29_ExtractionForVideoOnly ==
    /\ [](/\ pc[Worker] = "extractAudioFromVideo" => isVideo(filename[Worker])
          /\ \A f \in scratchWav : isVideo(f) /\ ~isAudio(f)
          /\ pc[Worker] \in {"runWhisperX", "podman run"} =>
                /\ filename[Worker] \in mediaFiles
                /\ filename[Worker] \in scratchWav <=> isVideo(filename[Worker])
                /\ filename[Worker] \notin scratchWav <=> isAudio(filename[Worker]))
    /\ [][mediaFiles \subseteq mediaFiles']_vars

\* the job of an audio file is over and the recognition of a video runs on its
\* scratch audio
C29_Witness ==
    /\ pc[Worker] = "podman run"
    /\ isVideo(filename[Worker])
    /\ filename[Worker] \in scratchWav
    /\ \E g \in Completed \cap mediaFiles : isAudio(g) /\ g \notin scratchWav

\* C30: for every filename GetNext returned the worker runs the pipeline to
\* its end and then calls exactly one of MarkCompleted and MarkFailed for it
\* before its next GetNext: when the worker starts a GetNext every filename it
\* was handed is Completed or Failed and not both, the worker enters a Mark
\* method only from the return of the pipeline, and it never stops with a
\* filename it was handed still InProcess.  It sleeps only directly after a
\* GetNext that returned empty.
C30_OneMarkPerJob ==
    /\ [](/\ pc[Worker] = "GetNext:Lock" =>
                \A f \in Range(handed) :
                    /\ f \in Completed \cup DOMAIN Failed
                    /\ f \notin Completed \cap DOMAIN Failed
          /\ pc[Worker] = "Sleep" => ~ok[Worker] /\ filename[Worker] = "")
    /\ [][/\ (pc'[Worker] = "Sleep" /\ pc[Worker] # "Sleep") =>
                pc[Worker] = "GetNext:Unlock"
          /\ (pc'[Worker] \in {"MarkCompleted:Lock", "MarkFailed:Lock"}
                 /\ pc'[Worker] # pc[Worker]) =>
                (pc[Worker] \in InStages \cup {"processTranscription"}
                   /\ filename'[Worker] \in InProcess)
          /\ (pc'[Worker] \notin {pc[Worker], "killed"}
                 /\ pc[Worker] \in InStages \cup {"processTranscription"}) =>
                pc'[Worker] \in InStages \cup {"MarkCompleted:Lock", "MarkFailed:Lock"}]_vars

\* C31: while the external tool run for job f has not returned, f is the one
\* filename InProcess, the worker does not hold the mutex, a handler that is
\* idle can start its call when the mutex is free and a handler that holds
\* it can go on; and in every step during which the tool does not return no
\* filename leaves Queue (it only grows at the back), none is handed out and
\* none is marked.
C31_HungToolStallsQueue ==
    /\ [](pc[Worker] = "podman run" =>
            /\ InProcess = {filename[Worker]}
            /\ mu # Worker
            /\ (Serving /\ mu = "") =>
                  /\ \A u \in Uploaders : pc[u] = "idle" => ENABLED handleUpload(u)
                  /\ \A o \in Observers :
                        pc[o] = "idle" => ENABLED handleTranscriptionStatus(o)
            /\ mu \in Uploaders => ENABLED AddToQueueBody(mu)
            /\ mu \in Observers => ENABLED GetAllStatusesBody(mu))
    /\ [][(pc[Worker] = "podman run" /\ pc'[Worker] = "podman run") =>
            /\ InProcess' = InProcess
            /\ Completed' = Completed
            /\ Failed' = Failed
            /\ handed' = handed
            /\ Len(Queue') >= Len(Queue)
            /\ SubSeq(Queue', 1, Len(Queue)) = Queue]_vars

\* an AddToQueue that started while the tool was running has appended its
\* file, and the tool is still running
C31_Witness ==
    /\ pc[Worker] = "podman run"
    /\ \E u \in Uploaders :
          /\ pc[u] = "AddToQueue:Unlock"
          /\ filename[Worker] \in entry[u].InProcess
          /\ filename[Worker] \in scratchWav
          /\ Queue = Append(entry[u].Queue, filename[u])

\* the status of f in the store; between the two writes of a GetNext or of a
\* Mark method, which are made under the mutex, f is still being processed
Status(f) ==
    CASE f \in Range(Queue) -> "Queued"
      [] f \in InProcess -> "Processing"
      [] \E t \in Threads : /\ filename[t] = f
                             /\ pc[t] \in {"GetNext:mark", "MarkCompleted:set",
                                            "MarkFailed:set"} -> "Processing"
      [] f \in Completed -> "Completed"
      [] f \in DOMAIN Failed -> "Failed"
      [] OTHER -> "Unknown"

\* C32: in every step each filename keeps its status or moves from unknown to
\* Queued, from Queued to Processing, or from Processing to Completed or to
\* Failed; and the error text recorded for a Failed filename never changes.
C32_StatusMovesForward ==
    [][\A f \in Files \cup {Photo} :
          /\ \/ Status(f)' = Status(f)
             \/ Status(f) = "Unknown" /\ Status(f)' = "Queued"
             \/ Status(f) = "Queued" /\ Status(f)' = "Processing"
             \/ Status(f) = "Processing" /\ Status(f)' \in {"Completed", "Failed"}
          /\ f \in DOMAIN Failed => f \in DOMAIN Failed' /\ Failed'[f] = Failed[f]]_vars

\* one filename is Failed, and an upload of a filename that is Completed has
\* found it so and has left the queue alone
C32_Witness ==
    /\ DOMAIN Failed # {}
    /\ \E u \in Uploaders :
          /\ pc[u] = "AddToQueue:Unlock"
          /\ filename[u] \in entry[u].Completed
          /\ Queue = entry[u].Queue

\* C33: with the worker scheduled fairly and every pipeline invocation
\* returning, every filename AddToQueue has accepted is eventually Completed
\* or Failed, whatever else is enqueued before or after it.
C33_EveryJobEnds ==
    \A f \in Files : (f \in Range(accepted)) ~> (f \in Completed \cup DOMAIN Failed)

\* every filename was accepted, one of them by an upload made after the
\* scanner's, and the job of each has ended
C33_Witness ==
    /\ Range(accepted) = Files
    /\ Files \subseteq Completed \cup DOMAIN Failed
    /\ accepted[Len(accepted)] \in DOMAIN metadataMd

\* C34: a filename that is Completed has its transcripts/<f>.json, holding
\* the recognized segments of its job, and every metadata record of it holds
\* the transcription built from them (and the JSON record the transcripts),
\* also when the filename was uploaded again while or after its job ran.
C34_CompletedHasTranscript ==
    \A f \in Completed :
        /\ f \in DOMAIN transcriptJson
        /\ transcriptJson[f] = TranscriptEntries(Speech(f))
        /\ f \in DOMAIN metadataJson \cup DOMAIN metadataMd
        /\ f \in DOMAIN metadataJson =>
              /\ UnmarshalMetadata(metadataJson[f]).Transcripts = transcriptJson[f]
              /\ UnmarshalMetadata(metadataJson[f]).Transcription =
                     fullText(transcriptJson[f])
        /\ f \in DOMAIN metadataMd =>
              metadataMd[f].Transcription = fullText(transcriptJson[f])

C36_ClassifiersAgree ==
    /\ \A n \in Range(DirListing) :
          /\ ScannerSuffix(n) <=> (isAudio(n) \/ isVideo(n))
          /\ mediaType(n) = "audio" <=> isAudio(n)
          /\ mediaType(n) = "video" <=> isVideo(n)
    /\ \A f \in Range(accepted) \cup Range(Queue) \cup InProcess :
          /\ isAudio(f) \/ isVideo(f)
          /\ mediaType(f) \in {"audio", "video"}
    /\ \A f \in DOMAIN Failed : Failed[f] # "unsupported file type: " \o f
    /\ Returned => errorMsg[Worker] # "unsupported file type: " \o filename[Worker]

\* a photo has been uploaded, and the jobs of a file the scanner enqueued and
\* of a file an upload enqueued have ended
C36_Witness ==
    /\ Photo \in DOMAIN metadataMd
    /\ Len(accepted) = 2
    /\ accepted[1] \notin DOMAIN metadataMd
    /\ accepted[2] \in DOMAIN metadataMd
    /\ Range(accepted) \subseteq Completed \cup DOMAIN Failed

\* C37: the worker sets Failed before it writes transcripts/<f>.failed and
\* sets Completed only after the integration has rewritten the metadata
\* record: while the process runs, a filename with a .failed marker written by
\* it is Failed in the Job Store with the text of the marker, the worker is
\* about to write the marker only for a filename that is Failed already, and a
\* filename that is Completed, or about to be marked so, has the transcript in
\* its record.
C37_StatusBeforeMarker ==
    pc[Worker] \notin {"fatal", "killed"} =>
        /\ \A f \in DOMAIN failedMarker :
              /\ f \in DOMAIN Failed
              /\ Failed[f] = failedMarker[f]
        /\ pc[Worker] = "WriteFailedFile" =>
              /\ filename[Worker] \in DOMAIN Failed
              /\ Failed[filename[Worker]] = errorMsg[Worker]
        /\ \A f \in Completed \cup
                   (IF pc[Worker] \in {"MarkCompleted:Lock", "MarkCompleted:delete",
                                      "MarkCompleted:set"}
                    THEN {filename[Worker]} ELSE {}) :
              /\ f \in DOMAIN metadataJson
              /\ UnmarshalMetadata(metadataJson[f]).Transcripts =
                     TranscriptEntries(Speech(f))
              /\ UnmarshalMetadata(metadataJson[f]).Transcription =
                     fullText(TranscriptEntries(Speech(f)))

\* one job has failed and its marker is written, another has completed
C37_Witness ==
    /\ DOMAIN failedMarker # {}
    /\ DOMAIN failedMarker \subseteq DOMAIN Failed
    /\ Completed # {}
    /\ pc[Worker] = "Sleep"

=============================================================================
